---- MODULE Spec2Model ----
(***************************************************************************)
(* Model of the ddns-updater core: the liveness server's run loop          *)
(* (health.Server.Run) and the namecheap and dondominio provider adapters  *)
(* (New, isValid, Update).                                                 *)
(***************************************************************************)
EXTENDS Integers, Sequences, FiniteSets, TLC

(***************************************************************************)
(* Bounds                                                                  *)
(***************************************************************************)
\* number of times the listener may crash on its own
MaxCrashes == 3
\* longest glue-record list a vendor response carries
MaxGlue == 1

\* counters of the server model saturate here (never reached by the code)
CounterCap == MaxCrashes + 3

Bump(n) == IF n < CounterCap THEN n + 1 ELSE n

Nil == "nil"

(***************************************************************************)
(* net.IP: a byte slice of length 0 (nil), 4 or 16.  fam and n name the    *)
(* address the bytes hold; a 16-byte slice of family 4 is the IPv4-mapped  *)
(* form ::ffff:a.b.c.d.                                                    *)
(***************************************************************************)
NilIP == [len |-> 0, fam |-> 0, n |-> 0]
IP4(k) == [len |-> 4, fam |-> 4, n |-> k]
Mapped(k) == [len |-> 16, fam |-> 4, n |-> k]
IP6(k) == [len |-> 16, fam |-> 6, n |-> k]

\* the requested addresses Update is called with
RequestedIPs == {NilIP, IP4(1), Mapped(1), IP4(2), IP6(1)}

\* the address texts a vendor response may carry
IPStrings == {"", "1.2.3.4", "5.6.7.8", "::ffff:1.2.3.4", "2001:db8::1", "not-an-ip"}

\* net.ParseIP: the 16-byte form of the address, nil when the text is no address
ParseIP(s) ==
    CASE s = "1.2.3.4" -> Mapped(1)
      [] s = "::ffff:1.2.3.4" -> Mapped(1)
      [] s = "5.6.7.8" -> Mapped(2)
      [] s = "2001:db8::1" -> IP6(1)
      [] OTHER -> NilIP

\* net.IP.String
IPString(ip) ==
    CASE ip.len = 0 -> "<nil>"
      [] ip.fam = 4 /\ ip.n = 1 -> "1.2.3.4"
      [] ip.fam = 4 /\ ip.n = 2 -> "5.6.7.8"
      [] OTHER -> "2001:db8::1"

\* net.IP.To4: the 4-byte form, nil when there is none
To4(ip) ==
    CASE ip.len = 4 -> ip
      [] ip.len = 16 /\ ip.fam = 4 -> IP4(ip.n)
      [] OTHER -> NilIP

\* net.IP.Equal: same bytes, or an IPv4 address and its IPv4-mapped form
IPEqual(ip, x) ==
    \/ ip.len = x.len /\ ip = x
    \/ ip.len = 4 /\ x.len = 16 /\ x.fam = 4 /\ x.n = ip.n
    \/ ip.len = 16 /\ x.len = 4 /\ ip.fam = 4 /\ ip.n = x.n

\* url.Values.Set
ValuesSet(values, key, value) == (key :> value) @@ values

\* url.Values{}
EmptyValues == [k \in {} |-> ""]

StatusOK == 200
\* the HTTP statuses a vendor answers with
Statuses == {200, 204, 500}

IPv4 == "ipv4"
IPv6 == "ipv6"
IPVersions == {IPv4, IPv6}

Domains == {"example.com"}
Hosts == {"", "@", "www"}
\* credential texts of the settings blob
Texts == {"", "secret"}
\* common.Matcher, by the passwords NamecheapPassword accepts
Matchers == {{}, {"secret"}}

NilProvider == [kind |-> Nil]
\* what a call returns: the confirmed IP and the error kind; panicked when
\* the call aborted; steps are the checks it ran, request the form it built
Outcome(ip, err, steps, request) ==
    [ip |-> ip, err |-> err, panicked |-> FALSE, steps |-> steps, request |-> request]
Panic(steps, request) ==
    [ip |-> NilIP, err |-> Nil, panicked |-> TRUE, steps |-> steps, request |-> request]

VARIABLES
    ctxCancelled,       \* ctx.Err() != nil
    loopPC,             \* position of Run's serving loop
    watcherPC,          \* position of the shutdown-watcher goroutine
    inShutdown,         \* http.Server: Shutdown has been invoked
    listenErr,          \* err returned by the last ListenAndServe
    crashes,            \* listener failures not caused by Shutdown
    listenCalls,        \* calls to server.ListenAndServe
    listensAfterCancel, \* calls to ListenAndServe started with ctx cancelled
    shutdownCalls,      \* calls to server.Shutdown
    earlyShutdown,      \* Shutdown was invoked while ctx was not cancelled
    restarts,           \* "restarting" log lines
    doneCloses,         \* number of close(done)
    provider,           \* the Provider last returned by a successful New
    call                \* the last New or Update call: inputs and results

serverVars == <<ctxCancelled, loopPC, watcherPC, inShutdown, listenErr, crashes,
                listenCalls, listensAfterCancel, shutdownCalls, earlyShutdown,
                restarts, doneCloses>>
providerVars == <<provider, call>>
vars == <<serverVars, providerVars>>

(***************************************************************************)
(* Liveness server: Server.Run                                             *)
(***************************************************************************)
InitServer ==
    /\ ctxCancelled = FALSE
    /\ loopPC = "check"
    /\ watcherPC = "wait"
    /\ inShutdown = FALSE
    /\ listenErr = Nil
    /\ crashes = 0
    /\ listenCalls = 0
    /\ listensAfterCancel = 0
    /\ shutdownCalls = 0
    /\ earlyShutdown = FALSE
    /\ restarts = 0
    /\ doneCloses = 0

\* the supervising context is cancelled by the caller
Cancel ==
    /\ ~ctxCancelled
    /\ ctxCancelled' = TRUE
    /\ UNCHANGED <<loopPC, watcherPC, inShutdown, listenErr, crashes, listenCalls,
                   listensAfterCancel, shutdownCalls, earlyShutdown, restarts,
                   doneCloses>>
    /\ UNCHANGED providerVars

\* variant: the watcher waits on a context that is never cancelled
WatcherNeverReady == FALSE

\* <-ctx.Done() of the watcher goroutine
WatcherReady == ctxCancelled

WatcherWake ==
    /\ watcherPC = "wait"
    /\ WatcherReady
    /\ watcherPC' = "shutdown"
    /\ UNCHANGED <<ctxCancelled, loopPC, inShutdown, listenErr, crashes, listenCalls,
                   listensAfterCancel, shutdownCalls, earlyShutdown, restarts,
                   doneCloses>>
    /\ UNCHANGED providerVars

\* server.Shutdown(shutdownCtx): listeners are closed, the server stays shut
WatcherShutdown ==
    /\ watcherPC = "shutdown"
    /\ watcherPC' = "finished"
    /\ inShutdown' = TRUE
    /\ shutdownCalls' = Bump(shutdownCalls)
    /\ earlyShutdown' = (earlyShutdown \/ ~ctxCancelled)
    /\ UNCHANGED <<ctxCancelled, loopPC, listenErr, crashes, listenCalls,
                   listensAfterCancel, restarts, doneCloses>>
    /\ UNCHANGED providerVars

\* variant: the loop runs while the listener has not failed
LoopCondUntilError == listenErr = Nil

\* variant: the loop runs until the listener reports ErrServerClosed
LoopCondUntilClosed == listenErr # "ErrServerClosed"

\* the loop condition ctx.Err() == nil
LoopCond == ~ctxCancelled

\* for ctx.Err() == nil { ... }, and the deferred close(done) when it is false
LoopCheck ==
    /\ loopPC = "check"
    /\ IF LoopCond
         THEN /\ loopPC' = "call"
              /\ UNCHANGED doneCloses
         ELSE /\ loopPC' = "exit"
              /\ doneCloses' = Bump(doneCloses)
    /\ UNCHANGED <<ctxCancelled, watcherPC, inShutdown, listenErr, crashes,
                   listenCalls, listensAfterCancel, shutdownCalls, earlyShutdown,
                   restarts>>
    /\ UNCHANGED providerVars

\* server.ListenAndServe() is entered; after Shutdown it returns
\* ErrServerClosed at once
ListenCall ==
    /\ loopPC = "call"
    /\ listenCalls' = Bump(listenCalls)
    /\ listensAfterCancel' =
          IF ctxCancelled THEN Bump(listensAfterCancel) ELSE listensAfterCancel
    /\ IF inShutdown
         THEN /\ loopPC' = "returned"
              /\ listenErr' = "ErrServerClosed"
         ELSE /\ loopPC' = "serving"
              /\ UNCHANGED listenErr
    /\ UNCHANGED <<ctxCancelled, watcherPC, inShutdown, crashes, shutdownCalls,
                   earlyShutdown, restarts, doneCloses>>
    /\ UNCHANGED providerVars

\* the listener fails underneath the server (bind or accept error)
ListenerCrash ==
    /\ loopPC = "serving"
    /\ crashes < MaxCrashes
    /\ crashes' = crashes + 1
    /\ listenErr' = "crash"
    /\ loopPC' = "returned"
    /\ UNCHANGED <<ctxCancelled, watcherPC, inShutdown, listenCalls,
                   listensAfterCancel, shutdownCalls, earlyShutdown, restarts,
                   doneCloses>>
    /\ UNCHANGED providerVars

\* ListenAndServe returns because Shutdown closed the listener
ListenerClosed ==
    /\ loopPC = "serving"
    /\ inShutdown
    /\ listenErr' = "ErrServerClosed"
    /\ loopPC' = "returned"
    /\ UNCHANGED <<ctxCancelled, watcherPC, inShutdown, crashes, listenCalls,
                   listensAfterCancel, shutdownCalls, earlyShutdown, restarts,
                   doneCloses>>
    /\ UNCHANGED providerVars

\* if err != nil && ctx.Err() == nil { log; log "restarting" }
LoopAfterServe ==
    /\ loopPC = "returned"
    /\ restarts' = IF listenErr # Nil /\ ~ctxCancelled THEN Bump(restarts) ELSE restarts
    /\ loopPC' = "check"
    /\ UNCHANGED <<ctxCancelled, watcherPC, inShutdown, listenErr, crashes,
                   listenCalls, listensAfterCancel, shutdownCalls, earlyShutdown,
                   doneCloses>>
    /\ UNCHANGED providerVars

(***************************************************************************)
(* namecheap: New, isValid, Update                                         *)
(***************************************************************************)
\* the raw settings handed to namecheap.New; ~wellformed: json.Unmarshal fails
NamecheapSettings ==
    {[wellformed |-> FALSE, password |-> "", provider_ip |-> FALSE]}
    \cup [wellformed : {TRUE}, password : Texts, provider_ip : BOOLEAN]

\* func (p *Provider) isValid() error
NamecheapIsValid(p) ==
    IF p.password \notin p.matcher THEN "ErrMalformedPassword" ELSE Nil

\* variant: the settings are decoded before the IP version is looked at
NamecheapNewDecodeFirst(data, domain, host, ipVersion, matcher) ==
    IF ~data.wellformed
      THEN [p |-> NilProvider, err |-> "ErrDecode"]
    ELSE IF ipVersion = IPv6
      THEN [p |-> NilProvider, err |-> "ErrIPv6NotSupported"]
    ELSE LET p == [kind |-> "namecheap", domain |-> domain, host |-> host,
                   ipVersion |-> ipVersion, password |-> data.password,
                   useProviderIP |-> data.provider_ip, matcher |-> matcher]
         IN  IF NamecheapIsValid(p) # Nil
               THEN [p |-> NilProvider, err |-> NamecheapIsValid(p)]
               ELSE [p |-> p, err |-> Nil]

\* func New(data, domain, host, ipVersion, matcher) (p *Provider, err error)
NamecheapNew(data, domain, host, ipVersion, matcher) ==
    IF ipVersion = IPv6
      THEN [p |-> NilProvider, err |-> "ErrIPv6NotSupported"]
    ELSE IF ~data.wellformed
      THEN [p |-> NilProvider, err |-> "ErrDecode"]
    ELSE LET p == [kind |-> "namecheap", domain |-> domain, host |-> host,
                   ipVersion |-> ipVersion, password |-> data.password,
                   useProviderIP |-> data.provider_ip, matcher |-> matcher]
         IN  IF NamecheapIsValid(p) # Nil
               THEN [p |-> NilProvider, err |-> NamecheapIsValid(p)]
               ELSE [p |-> p, err |-> Nil]

\* the query string Update builds
NamecheapRequest(p, ip) ==
    LET v1 == ValuesSet(EmptyValues, "host", p.host)
        v2 == ValuesSet(v1, "domain", p.domain)
        v3 == ValuesSet(v2, "password", p.password)
    IN  IF ~p.useProviderIP THEN ValuesSet(v3, "ip", IPString(ip)) ELSE v3

\* the XML bodies the vendor answers with; ~wellformed: decoder.Decode fails
NamecheapBodies ==
    {[wellformed |-> FALSE, error |-> "", ip |-> ""]}
    \cup [wellformed : {TRUE}, error : {"", "Domain name not found"}, ip : IPStrings]

NamecheapResponses ==
    {[sent |-> FALSE, status |-> 0, body |-> [wellformed |-> FALSE, error |-> "", ip |-> ""]]}
    \cup [sent : {TRUE}, status : Statuses, body : NamecheapBodies]

\* response.StatusCode != http.StatusOK
NamecheapBadStatus(response) == response.status # StatusOK

\* parsedXML.Errors.Error != ""
NamecheapVendorError(parsedXML) == parsedXML.error # ""

\* variant: the IP sent is returned re-parsed from its text
NamecheapNoIPReparsed(ip) == ParseIP(IPString(ip))

\* newIP = ip: the XML has no IP address, the IP sent is returned
NamecheapNoIPResult(ip) == ip

\* variant: the nil test is inverted
NamecheapMismatchNilOnly(ip, newIP) == ip = NilIP /\ ~IPEqual(ip, newIP)

\* ip != nil && !ip.Equal(newIP)
NamecheapMismatch(ip, newIP) == ip # NilIP /\ ~IPEqual(ip, newIP)

\* Update from the decoded body on: vendor error, IP field, parse, compare
NamecheapCheckDecoded(ip, parsedXML, steps, request) ==
    IF NamecheapVendorError(parsedXML)
      THEN Outcome(NilIP, "ErrUnsuccessfulResponse", steps \o <<"vendorerr">>, request)
    ELSE IF parsedXML.ip = ""
      THEN Outcome(NamecheapNoIPResult(ip), Nil, steps \o <<"vendorerr", "extract">>, request)
    ELSE LET newIP == ParseIP(parsedXML.ip) IN
      IF newIP = NilIP
        THEN Outcome(NilIP, "ErrIPReceivedMalformed", steps \o <<"vendorerr", "extract">>, request)
      ELSE IF NamecheapMismatch(ip, newIP)
        THEN Outcome(NilIP, "ErrIPReceivedMismatch",
                     steps \o <<"vendorerr", "extract", "compare">>, request)
      ELSE Outcome(newIP, Nil, steps \o <<"vendorerr", "extract", "compare">>, request)

\* func (p *Provider) Update(ctx, client, ip) (newIP net.IP, err error)
NamecheapUpdate(p, ip, response) ==
    LET request == NamecheapRequest(p, ip) IN
    IF ~response.sent
      THEN Outcome(NilIP, "ErrTransport", <<>>, request)
    ELSE IF NamecheapBadStatus(response)
      THEN Outcome(NilIP, "ErrBadHTTPStatus", <<"status">>, request)
    ELSE IF ~response.body.wellformed
      THEN Outcome(NilIP, "ErrUnmarshalResponse", <<"status", "decode">>, request)
    ELSE NamecheapCheckDecoded(ip, response.body, <<"status", "decode">>, request)

(***************************************************************************)
(* dondominio: New, isValid, Update                                        *)
(***************************************************************************)
DondominioSettings ==
    {[wellformed |-> FALSE, username |-> "", password |-> "", name |-> ""]}
    \cup [wellformed : {TRUE}, username : Texts, password : Texts, name : Texts]

\* func (p *Provider) isValid() error
DondominioIsValid(p) ==
    CASE p.username = "" -> "ErrEmptyUsername"
      [] p.username # "" /\ p.password = "" -> "ErrEmptyPassword"
      [] p.username # "" /\ p.password # "" /\ p.name = "" -> "ErrEmptyName"
      [] p.username # "" /\ p.password # "" /\ p.name # "" /\ p.host # "@" -> "ErrHostOnlyAt"
      [] OTHER -> Nil

\* if len(host) == 0 { host = "@" }
DondominioDefaultHost(host) == IF host = "" THEN "@" ELSE host

\* func New(data, domain, host, ipVersion) (p *Provider, err error)
DondominioNew(data, domain, host, ipVersion) ==
    IF ~data.wellformed
      THEN [p |-> NilProvider, err |-> "ErrDecode"]
    ELSE LET p == [kind |-> "dondominio", domain |-> domain,
                   host |-> DondominioDefaultHost(host), ipVersion |-> ipVersion,
                   username |-> data.username, password |-> data.password,
                   name |-> data.name]
         IN  IF DondominioIsValid(p) # Nil
               THEN [p |-> NilProvider, err |-> DondominioIsValid(p)]
               ELSE [p |-> p, err |-> Nil]

\* variant: ipv4 is always set, ipv6 added for an IPv6 address
DondominioRequestBoth(p, ip) ==
    LET v1 == ValuesSet(EmptyValues, "apiuser", p.username)
        v2 == ValuesSet(v1, "apipasswd", p.password)
        v3 == ValuesSet(v2, "domain", p.domain)
        v4 == ValuesSet(v3, "name", p.name)
        v5 == ValuesSet(v4, "ipv4", IPString(ip))
        isIPv4 == To4(ip) # NilIP
    IN  IF isIPv4 THEN v5 ELSE ValuesSet(v5, "ipv6", IPString(ip))

\* the form Update posts: isIPv4 := ip.To4() != nil picks ipv4 or ipv6
DondominioRequest(p, ip) ==
    LET v1 == ValuesSet(EmptyValues, "apiuser", p.username)
        v2 == ValuesSet(v1, "apipasswd", p.password)
        v3 == ValuesSet(v2, "domain", p.domain)
        v4 == ValuesSet(v3, "name", p.name)
        isIPv4 == To4(ip) # NilIP
    IN  IF isIPv4 THEN ValuesSet(v4, "ipv4", IPString(ip))
                  ELSE ValuesSet(v4, "ipv6", IPString(ip))

GlueRecord == [ipv4 : IPStrings, ipv6 : IPStrings]

RECURSIVE GlueLists(_)
GlueLists(n) ==
    IF n = 0 THEN {<<>>}
    ELSE GlueLists(n - 1) \cup
         {Append(l, g) : l \in {x \in GlueLists(n - 1) : Len(x) = n - 1}, g \in GlueRecord}

\* the JSON envelopes the vendor answers with; ~wellformed: decoder.Decode fails
DondominioBodies ==
    {[wellformed |-> FALSE, success |-> FALSE, errorCode |-> 0, errorCodeMsg |-> "",
      gluerecords |-> <<>>]}
    \cup [wellformed : {TRUE}, success : {TRUE}, errorCode : {0}, errorCodeMsg : {""},
          gluerecords : GlueLists(MaxGlue)]
    \cup [wellformed : {TRUE}, success : {FALSE}, errorCode : {0, 5},
          errorCodeMsg : {"bad auth"}, gluerecords : GlueLists(MaxGlue)]

DondominioResponses ==
    {[sent |-> FALSE, status |-> 0,
      body |-> [wellformed |-> FALSE, success |-> FALSE, errorCode |-> 0,
                errorCodeMsg |-> "", gluerecords |-> <<>>]]}
    \cup [sent : {TRUE}, status : Statuses, body : DondominioBodies]

\* variant: only 4xx and 5xx statuses are rejected
DondominioBadStatusErrorsOnly(response) == response.status >= 400

\* response.StatusCode != http.StatusOK
DondominioBadStatus(response) == response.status # StatusOK

\* !ip.Equal(newIP)
DondominioMismatch(ip, newIP) == ~IPEqual(ip, newIP)

\* variant: the first glue record is read before the success flag is tested
DondominioCheckDecodedExtractFirst(ip, responseData, steps, request) ==
    LET isIPv4 == To4(ip) # NilIP IN
    IF Len(responseData.gluerecords) = 0
      THEN Panic(steps \o <<"extract">>, request)
    ELSE LET ipString == IF isIPv4 THEN responseData.gluerecords[1].ipv4
                                   ELSE responseData.gluerecords[1].ipv6
             newIP == ParseIP(ipString)
         IN
      IF ~responseData.success
        THEN Outcome(NilIP, "ErrUnsuccessfulResponse", steps \o <<"extract", "vendorerr">>, request)
      ELSE IF newIP = NilIP
        THEN Outcome(NilIP, "ErrIPReceivedMalformed", steps \o <<"extract", "vendorerr">>, request)
      ELSE IF ~IPEqual(ip, newIP)
        THEN Outcome(NilIP, "ErrIPReceivedMismatch",
                     steps \o <<"extract", "vendorerr", "compare">>, request)
      ELSE Outcome(newIP, Nil, steps \o <<"extract", "vendorerr", "compare">>, request)

\* Update from the decoded envelope on: success flag, first glue record,
\* parse, compare; GlueRecords[0] of an empty list panics
DondominioCheckDecoded(ip, responseData, steps, request) ==
    LET isIPv4 == To4(ip) # NilIP IN
    IF ~responseData.success
      THEN Outcome(NilIP, "ErrUnsuccessfulResponse", steps \o <<"vendorerr">>, request)
    ELSE IF Len(responseData.gluerecords) = 0
      THEN Panic(steps \o <<"vendorerr", "extract">>, request)
    ELSE LET ipString == IF isIPv4 THEN responseData.gluerecords[1].ipv4
                                   ELSE responseData.gluerecords[1].ipv6
             newIP == ParseIP(ipString)
         IN
      IF newIP = NilIP
        THEN Outcome(NilIP, "ErrIPReceivedMalformed", steps \o <<"vendorerr", "extract">>, request)
      ELSE IF DondominioMismatch(ip, newIP)
        THEN Outcome(NilIP, "ErrIPReceivedMismatch",
                     steps \o <<"vendorerr", "extract", "compare">>, request)
      ELSE Outcome(newIP, Nil, steps \o <<"vendorerr", "extract", "compare">>, request)

\* func (p *Provider) Update(ctx, client, ip) (newIP net.IP, err error)
DondominioUpdate(p, ip, response) ==
    LET request == DondominioRequest(p, ip) IN
    IF ~response.sent
      THEN Outcome(NilIP, "ErrTransport", <<>>, request)
    ELSE IF DondominioBadStatus(response)
      THEN Outcome(NilIP, "ErrBadHTTPStatus", <<"status">>, request)
    ELSE IF ~response.body.wellformed
      THEN Outcome(NilIP, "ErrUnmarshalResponse", <<"status", "decode">>, request)
    ELSE DondominioCheckDecoded(ip, response.body, <<"status", "decode">>, request)

(***************************************************************************)
(* The caller: constructs a Provider, then calls Update on it              *)
(***************************************************************************)
NoCall == [op |-> "none"]

InitProviders ==
    /\ provider = NilProvider
    /\ call = NoCall

CallNamecheapNew ==
    /\ call = NoCall
    /\ \E data \in NamecheapSettings, domain \in Domains, host \in Hosts,
          ipVersion \in IPVersions, matcher \in Matchers :
          LET r == NamecheapNew(data, domain, host, ipVersion, matcher) IN
          /\ call' = [op |-> "new", kind |-> "namecheap", data |-> data, host |-> host,
                      ipVersion |-> ipVersion, matcher |-> matcher, p |-> r.p, err |-> r.err]
          /\ provider' = IF r.err = Nil THEN r.p ELSE provider
    /\ UNCHANGED serverVars

CallDondominioNew ==
    /\ call = NoCall
    /\ \E data \in DondominioSettings, domain \in Domains, host \in Hosts,
          ipVersion \in IPVersions :
          LET r == DondominioNew(data, domain, host, ipVersion) IN
          /\ call' = [op |-> "new", kind |-> "dondominio", data |-> data, host |-> host,
                      ipVersion |-> ipVersion, matcher |-> {}, p |-> r.p, err |-> r.err]
          /\ provider' = IF r.err = Nil THEN r.p ELSE provider
    /\ UNCHANGED serverVars

CallNamecheapUpdate ==
    /\ call = NoCall
    /\ provider.kind = "namecheap"
    /\ \E ip \in RequestedIPs, response \in NamecheapResponses :
          call' = [op |-> "update", kind |-> "namecheap", ip |-> ip, response |-> response,
                   out |-> NamecheapUpdate(provider, ip, response)]
    /\ UNCHANGED <<provider, serverVars>>

CallDondominioUpdate ==
    /\ call = NoCall
    /\ provider.kind = "dondominio"
    /\ \E ip \in RequestedIPs, response \in DondominioResponses :
          call' = [op |-> "update", kind |-> "dondominio", ip |-> ip, response |-> response,
                   out |-> DondominioUpdate(provider, ip, response)]
    /\ UNCHANGED <<provider, serverVars>>

\* the caller has taken the result
CallReturn ==
    /\ call # NoCall
    /\ call' = NoCall
    /\ UNCHANGED <<provider, serverVars>>

Init == InitServer /\ InitProviders

NextProviders ==
    \/ CallNamecheapNew
    \/ CallDondominioNew
    \/ CallNamecheapUpdate
    \/ CallDondominioUpdate
    \/ CallReturn

ProviderSpec == Init /\ [][NextProviders]_vars

NextServer ==
    \/ Cancel
    \/ WatcherWake
    \/ WatcherShutdown
    \/ LoopCheck
    \/ ListenCall
    \/ ListenerCrash
    \/ ListenerClosed
    \/ LoopAfterServe

ServerSpec == Init /\ [][NextServer]_vars

\* goroutines are scheduled and Shutdown makes a blocked ListenAndServe
\* return; cancellation and crashes are the environment's choice
ServerFairness ==
    /\ WF_vars(WatcherWake)
    /\ WF_vars(WatcherShutdown)
    /\ WF_vars(LoopCheck)
    /\ WF_vars(ListenCall)
    /\ WF_vars(ListenerClosed)
    /\ WF_vars(LoopAfterServe)

ServerLiveSpec == ServerSpec /\ ServerFairness

(***************************************************************************)
(* Properties of Server.Run                                                *)
(***************************************************************************)
RunReturned == loopPC = "exit"

\* C1: whenever the context is cancelled, the serving loop eventually
\* terminates; done is closed exactly once when Run returns, never twice,
\* and never left unclosed by a returned Run.
DoneClosedExactlyOnce ==
    /\ [](doneCloses <= 1)
    /\ [](RunReturned <=> doneCloses = 1)
    /\ (ctxCancelled ~> (RunReturned /\ doneCloses = 1))

\* C1 witness: Run has returned after a cancellation that shut a listener down
RunCompletedAfterCancel ==
    /\ ctxCancelled
    /\ RunReturned
    /\ doneCloses = 1
    /\ listenCalls >= 1
    /\ listenErr = "ErrServerClosed"

\* C2: done is never closed, and Run never returns, while the context is not
\* cancelled; a loop check made with the context uncancelled (in particular
\* after a listener crash) leads to another ListenAndServe call.
RestartWhileLive ==
    /\ [](~ctxCancelled => (doneCloses = 0 /\ ~RunReturned))
    /\ [][(loopPC = "check" /\ loopPC' # "check" /\ ~ctxCancelled)
             => (loopPC' = "call" /\ doneCloses' = 0)]_vars

\* C2 witness: every allowed crash was followed by a restart, context still live
RestartedAfterEveryCrash ==
    /\ ~ctxCancelled
    /\ crashes = MaxCrashes
    /\ restarts = MaxCrashes
    /\ listenCalls = MaxCrashes + 1
    /\ loopPC = "serving"
    /\ doneCloses = 0

\* C10: Shutdown is invoked at most once and only after the context is
\* cancelled, and at most one ListenAndServe call starts after cancellation.
ShutdownOnceOneLateListen ==
    /\ shutdownCalls <= 1
    /\ ~earlyShutdown
    /\ (shutdownCalls >= 1 => ctxCancelled)
    /\ listensAfterCancel <= 1

\* C10 witness: cancellation fell between the loop check and ListenAndServe,
\* and Run returned after that one late listen attempt
LateListenThenExit ==
    /\ listensAfterCancel = 1
    /\ shutdownCalls = 1
    /\ RunReturned

(***************************************************************************)
(* Properties of the adapters                                              *)
(***************************************************************************)
IsUpdate == call.op = "update"
IsNew == call.op = "new"
\* the response was received with status 200 and decoded
Decoded ==
    /\ call.response.sent
    /\ call.response.status = StatusOK
    /\ call.response.body.wellformed
\* the decoded response signals a vendor failure
VendorFailure ==
    IF call.kind = "namecheap" THEN call.response.body.error # ""
                               ELSE ~call.response.body.success
\* the response carries an IP text for the requested address
CarriesIP ==
    IF call.kind = "namecheap" THEN call.response.body.ip # ""
                               ELSE Len(call.response.body.gluerecords) >= 1
CarriedIP ==
    IF call.kind = "namecheap" THEN call.response.body.ip
    ELSE IF call.ip.len = 4 \/ (call.ip.len = 16 /\ call.ip.fam = 4)
           THEN call.response.body.gluerecords[1].ipv4
           ELSE call.response.body.gluerecords[1].ipv6

\* C3 (as claimed): every Update returns either a non-nil IP with a nil error
\* or a nil IP with a non-nil error, and never aborts.
UpdateOutcomeExclusive ==
    IsUpdate =>
        /\ ~call.out.panicked
        /\ \/ call.out.ip # NilIP /\ call.out.err = Nil
           \/ call.out.ip = NilIP /\ call.out.err # Nil

\* C4: a 200, decoded, vendor-error-free response carrying a parsable IP not
\* equal to the non-nil requested IP gives ErrIPReceivedMismatch and a nil IP;
\* a nil error for a non-nil requested IP comes with an equal IP.
MismatchRejected ==
    (IsUpdate /\ call.ip # NilIP) =>
        /\ (/\ Decoded
            /\ ~VendorFailure
            /\ CarriesIP
            /\ ParseIP(CarriedIP) # NilIP
            /\ ~IPEqual(call.ip, ParseIP(CarriedIP)))
              => (call.out.err = "ErrIPReceivedMismatch" /\ call.out.ip = NilIP)
        /\ (call.out.err = Nil /\ ~call.out.panicked)
              => (call.out.ip # NilIP /\ IPEqual(call.ip, call.out.ip))

\* C4 witness: namecheap answered with another address than the one requested
NamecheapMismatchSeen ==
    /\ IsUpdate
    /\ call.kind = "namecheap"
    /\ call.ip = IP4(1)
    /\ Decoded
    /\ call.response.body.error = ""
    /\ call.response.body.ip = "5.6.7.8"
    /\ call.out.err = "ErrIPReceivedMismatch"

\* C5: a status other than 200 gives ErrBadHTTPStatus and a nil IP whatever
\* the body holds, and the body is not decoded.
BadStatusAlwaysRejected ==
    (IsUpdate /\ call.response.sent /\ call.response.status # StatusOK) =>
        /\ call.out.err = "ErrBadHTTPStatus"
        /\ call.out.ip = NilIP
        /\ ~call.out.panicked
        /\ call.out.steps = <<"status">>

\* C5 witness: status 204 with a success envelope that confirms the requested IP
BadStatusWithGoodBody ==
    /\ IsUpdate
    /\ call.kind = "dondominio"
    /\ call.response.sent
    /\ call.response.status = 204
    /\ call.response.body.wellformed
    /\ call.response.body.success
    /\ call.ip = IP4(1)
    /\ Len(call.response.body.gluerecords) >= 1
    /\ call.response.body.gluerecords[1].ipv4 = "1.2.3.4"
    /\ call.out.err = "ErrBadHTTPStatus"

\* C6: namecheap, status 200, decoded, empty error field and empty IP field:
\* the requested IP is returned unchanged with a nil error, whatever
\* useProviderIP is.
NamecheapEmptyIPReturnsRequested ==
    (/\ IsUpdate
     /\ call.kind = "namecheap"
     /\ Decoded
     /\ call.response.body.error = ""
     /\ call.response.body.ip = "")
        => (call.out.ip = call.ip /\ call.out.err = Nil /\ ~call.out.panicked)

\* C6 witness: a 4-byte requested IP came back on an empty IP field, with
\* useProviderIP set
NamecheapEmptyIPSeen ==
    /\ IsUpdate
    /\ call.kind = "namecheap"
    /\ provider.useProviderIP
    /\ Decoded
    /\ call.response.body.error = ""
    /\ call.response.body.ip = ""
    /\ call.ip = IP4(1)
    /\ call.out.ip = IP4(1)

\* C7: every dondominio request carries exactly one of ipv4 and ipv6, and it
\* is ipv6 (with ipv4 absent) when the requested IP is an IPv6 address.
DondominioOneIPField ==
    (IsUpdate /\ call.kind = "dondominio") =>
        LET fields == DOMAIN call.out.request IN
        /\ ("ipv4" \in fields) # ("ipv6" \in fields)
        /\ (call.ip.len = 16 /\ call.ip.fam = 6)
              => ("ipv6" \in fields /\ "ipv4" \notin fields)

\* C7 witness: an IPv6 update was requested
DondominioIPv6Requested ==
    /\ IsUpdate
    /\ call.kind = "dondominio"
    /\ call.ip = IP6(1)
    /\ "ipv6" \in DOMAIN call.out.request
    /\ call.out.request["ipv6"] = "2001:db8::1"

\* C8: New reports the first violated rule and returns no Provider on failure.
\* namecheap: IPv6 -> decode -> password matcher; dondominio: decode ->
\* username -> password -> name -> host (empty host defaulted to "@").
NewFirstViolation ==
    IsNew =>
        /\ call.kind = "namecheap" =>
             call.err = (IF call.ipVersion = IPv6 THEN "ErrIPv6NotSupported"
                         ELSE IF ~call.data.wellformed THEN "ErrDecode"
                         ELSE IF call.data.password \notin call.matcher
                                THEN "ErrMalformedPassword"
                         ELSE Nil)
        /\ call.kind = "dondominio" =>
             call.err = (IF ~call.data.wellformed THEN "ErrDecode"
                         ELSE IF call.data.username = "" THEN "ErrEmptyUsername"
                         ELSE IF call.data.password = "" THEN "ErrEmptyPassword"
                         ELSE IF call.data.name = "" THEN "ErrEmptyName"
                         ELSE IF call.host \notin {"", "@"} THEN "ErrHostOnlyAt"
                         ELSE Nil)
        /\ (call.err # Nil) <=> (call.p = NilProvider)
        /\ call.err = Nil => (call.p = provider /\ call.p.kind = call.kind)

\* C8 witness: namecheap.New for IPv6 with a malformed blob and a matcher
\* that accepts nothing
NamecheapIPv6WithBadSettings ==
    /\ IsNew
    /\ call.kind = "namecheap"
    /\ call.ipVersion = IPv6
    /\ ~call.data.wellformed
    /\ call.matcher = {}
    /\ call.err = "ErrIPv6NotSupported"

CheckOrder == <<"status", "decode", "vendorerr", "extract", "compare">>
KindOfStep(step) ==
    CASE step = "status" -> "ErrBadHTTPStatus"
      [] step = "decode" -> "ErrUnmarshalResponse"
      [] step = "vendorerr" -> "ErrUnsuccessfulResponse"
      [] step = "extract" -> "ErrIPReceivedMalformed"
      [] step = "compare" -> "ErrIPReceivedMismatch"

\* C9: the checks of one Update run in the order status, decode, vendor
\* error, IP extract, IP compare; a returned error is that of the last check
\* run, which is the first that fails; a vendor failure gives
\* ErrUnsuccessfulResponse and a nil IP without the vendor IP being read.
UpdateChecksInOrder ==
    (IsUpdate /\ call.response.sent) =>
        LET steps == call.out.steps IN
        /\ Len(steps) >= 1
        /\ Len(steps) <= Len(CheckOrder)
        /\ steps = SubSeq(CheckOrder, 1, Len(steps))
        /\ call.out.err # Nil => call.out.err = KindOfStep(steps[Len(steps)])
        /\ call.response.status # StatusOK => call.out.err = "ErrBadHTTPStatus"
        /\ (call.response.status = StatusOK /\ ~call.response.body.wellformed)
              => call.out.err = "ErrUnmarshalResponse"
        /\ (Decoded /\ VendorFailure) =>
              /\ call.out.err = "ErrUnsuccessfulResponse"
              /\ call.out.ip = NilIP
              /\ ~call.out.panicked
              /\ steps = <<"status", "decode", "vendorerr">>

\* C9 witness: dondominio reported a failure in an envelope without glue records
VendorFailureWithEmptyList ==
    /\ IsUpdate
    /\ call.kind = "dondominio"
    /\ Decoded
    /\ ~call.response.body.success
    /\ call.response.body.errorCode = 5
    /\ call.response.body.gluerecords = <<>>
    /\ call.out.err = "ErrUnsuccessfulResponse"

====
